---- MODULE Spec2Model ----
(***************************************************************************)
(* Batching rules for random operators under vmap                          *)
(* (functorch/csrc/BatchRulesRandomness.cpp).                              *)
(*                                                                         *)
(* One call of an intercepted operator is modelled from the moment the     *)
(* dispatcher routes it to its rule until the rule returns or throws.      *)
(* The nested call of the real operator is a step of its own, so that the  *)
(* dispatch-key exclusion in force during that call is visible, and the    *)
(* randperm loop runs one iteration per step.                              *)
(***************************************************************************)
EXTENDS Integers, Sequences, FiniteSets, TLC

\* ------------------------------------------------------------- bounds
MaxBatch == 2        \* batch sizes 1..MaxBatch
MaxRank  == 2        \* requested shapes have at most MaxRank dimensions
MaxN     == 3        \* randperm n is in -1..MaxN
MaxGen   == 1        \* a call starts only while no generator has passed this step

\* ------------------------------------------------------------- values
Error     == "Error"
Same      == "Same"
Different == "Different"
RandomnessType == {Error, Same, Different}

kVmapModeKey == "FuncTorchVmapMode"

GenNames == {"default", "user"}
LayerIds == {1, 2}
DimSizes == {2, 3}
Scalars  == {0, 1}
NoBdim   == -1

RECURSIVE SeqsUpTo(_, _)
SeqsUpTo(S, k) ==
  IF k = 0 THEN {<<>>}
  ELSE LET prev == SeqsUpTo(S, k - 1)
       IN prev \cup {Append(s, x) : s \in {p \in prev : Len(p) = k - 1}, x \in S}

Shapes == SeqsUpTo(DimSizes, MaxRank)
\* logical shapes of in-place targets
TargetShapes == {sh \in Shapes : Len(sh) < MaxRank}
\* the trailing arguments of a call: the generator and the tensor options
Extras == {[generator |-> "default", opt |-> 0], [generator |-> "user", opt |-> 1]}

\* sequence helpers, positions counted from 0 as in the source
InsertAt(s, k, x) == SubSeq(s, 1, k) \o <<x>> \o SubSeq(s, k + 1, Len(s))
RemoveAt(s, k)    == SubSeq(s, 1, k) \o SubSeq(s, k + 2, Len(s))

\* a tensor value: its sizes, the storage it reads and writes, the generator
\* step it was drawn at, and (randperm) its permutation / stacked rows
NoTensor == [sizes |-> <<>>, storage |-> "none", draw |-> -1,
             perm |-> <<>>, rows |-> <<>>]
NoView   == [sizes |-> <<>>, storage |-> "none"]
NoExtras == [generator |-> "default", opt |-> 0]

\* the contents one in-place draw leaves in unit i of the value it fills
Draw(g, i) == [g |-> g, i |-> i]
\* contents of a target before the call: every slice different
InitialData(k) == [i \in 1..k |-> Draw(-1, i)]

VARIABLES
  layer,      \* the active transform layer: batchSize, layerId, randomness
  excluded,   \* thread-local set of excluded dispatch keys
  gens,       \* state of the default and of the user generator
  pc,         \* position of the call in flight
  args,       \* the arguments the rule was called with
  entry,      \* generator, key set and target contents when the call began
  guard,      \* keys the ExcludeDispatchKeyGuard added, removed on exit
  self,       \* the in-place target handle: level, bdim, physical sizes
  mem,        \* contents of the storages "self" and "intermediate"
  local,      \* locals of the rule: shapeVec, self_value, self_bdim, idx, ...
  calls,      \* invocations of the real operator made by this call, in order
  result      \* what the rule returned or threw

vars == <<layer, excluded, gens, pc, args, entry, guard, self, mem, local,
          calls, result>>

NoArgs   == [rule |-> "none", func |-> "none", shape |-> <<>>, scalars |-> <<>>,
             n |-> 0, extras |-> NoExtras]
NoSelf   == [level |-> 0, bdim |-> NoBdim, psizes |-> <<>>]
NoMem    == [self |-> <<>>, intermediate |-> <<>>]
NoLocal  == [shapeVec |-> <<>>, self_value |-> NoView, self_bdim |-> NoBdim,
             intermediate |-> NoView, idx |-> 0, stackedList |-> <<>>]
NoResult == [status |-> "none", handle |-> "none", value |-> NoTensor,
             bdim |-> NoBdim, level |-> 0]
NoEntry  == [gens |-> [g \in GenNames |-> 0], excluded |-> {}, mem |-> NoMem]

Threw(what) == [NoResult EXCEPT !.status = what]

\* ------------------------------------------------- external collaborators

\* the guard forgotten: nothing is excluded during the rule
GuardEnter_none(ex) == ex

\* c10::impl::ExcludeDispatchKeyGuard: the constructor adds the keys that are
\* not yet excluded and remembers them; the destructor removes exactly those.
GuardDelta(ex)        == {kVmapModeKey} \ ex
GuardEnter(ex)        == ex \cup {kVmapModeKey}
GuardExit(ex, delta)  == ex \ delta

\* the dispatcher: a call of an intercepted operator reaches this module's rule
\* unless the vmap-mode key is excluded, and the real kernel otherwise
Dispatch(ex) == IF kVmapModeKey \in ex THEN "real" ELSE "rule"

\* makeBatched(tensor, bdim, level), and a tensor returned as it is
makeBatched(t, bdim, level) ==
  [status |-> "ok", handle |-> "new", value |-> t, bdim |-> bdim, level |-> level]
Plain(t) ==
  [status |-> "ok", handle |-> "new", value |-> t, bdim |-> NoBdim, level |-> 0]

\* Tensor::sizes() of the target: a BatchedTensor hides its batch dimension
LogicalSizes(t) ==
  IF t.bdim = NoBdim THEN t.psizes ELSE RemoveAt(t.psizes, t.bdim)

\* unwrapTensorAtLevel(self, level): the physical value and its batch dimension
\* when self is batched at this level; self itself and no dimension otherwise
unwrapTensorAtLevel(t, level) ==
  IF t.level = level
  THEN [value |-> [sizes |-> t.psizes, storage |-> "self"], bdim |-> t.bdim]
  ELSE [value |-> [sizes |-> LogicalSizes(t), storage |-> "self"], bdim |-> NoBdim]

\* moveBatchDimToFront(value, bdim): a view of the same storage
moveBatchDimToFront(v, bdim) ==
  IF bdim = NoBdim THEN v
  ELSE [v EXCEPT !.sizes = <<v.sizes[bdim + 1]>> \o RemoveAt(v.sizes, bdim)]

\* at::empty(sizes, options): a fresh tensor with a storage of its own
empty(sizes) == [sizes |-> sizes, storage |-> "intermediate"]

\* at::stack(list): a new leading dimension, row i the i-th tensor
stack(list) ==
  [sizes |-> <<Len(list)>> \o list[1].sizes, storage |-> "new", draw |-> -1,
   perm |-> <<>>, rows |-> [i \in 1..Len(list) |-> list[i].perm]]

\* The real operators.  A call that fails its argument check throws before it
\* draws; every other call advances the generator it was given by one step and
\* its result is a function of the generator state it started from.
RealThrows(c) ==
  \/ c.op = "randint" /\ Len(c.scalars) = 1 /\ c.scalars[1] <= 0
  \/ c.op = "randint" /\ Len(c.scalars) = 2 /\ c.scalars[1] >= c.scalars[2]
  \/ c.op = "randperm" /\ c.n < 0
  \/ c.op = "random_.from" /\ c.scalars[1] >= c.scalars[2]

RealPerm(n, g) == [i \in 1..n |-> (i - 1 + g) % n]

RealOp(c) ==
  IF c.op = "randperm"
  THEN [sizes |-> <<c.n>>, storage |-> "new", draw |-> c.gen0,
        perm |-> RealPerm(c.n, c.gen0), rows |-> <<>>]
  ELSE [sizes |-> c.shape, storage |-> "new", draw |-> c.gen0,
        perm |-> <<>>, rows |-> <<>>]

Advance(gs, g) == [gs EXCEPT ![g] = @ + 1]

\* ------------------------------------------------------------ the rules

\* the mode check dropped
check_randomness_never(randomness) == TRUE

\* check_randomness: TRUE when the TORCH_CHECK passes
check_randomness(randomness) == randomness # Error

\* the batch size appended instead of prepended
ShapeVec_appended(batchSize, shape) == shape \o <<batchSize>>

\* lines 26-28: the shape with the batch size in front
ShapeVec(batchSize, shape) == <<batchSize>> \o shape

\* the expanded shape used in both modes
FuncShape_always_batched(randomness, shape, shapeVec) == shapeVec

\* lines 31-35: the shape the real operator is called with
FuncShape(randomness, shape, shapeVec) ==
  IF randomness = Different THEN shapeVec ELSE shape

\* every invocation handed a copy of the generator as it was on entry
GeneratorSeen_copy(g) == entry.gens[g]

\* the generator state an invocation inside the rule starts from: the extra
\* arguments hold a handle of the generator, so it is the shared, current state
GeneratorSeen(g) == gens[g]

\* the two bounds forwarded in the wrong order
rand_int_low_wrapper_swapped(shape, scalars, extras) ==
  [op |-> "randint", scalars |-> <<scalars[2], scalars[1]>>, shape |-> shape,
   n |-> 0, extras |-> extras, on |-> NoView, gen0 |-> gens[extras.generator]]

\* rand_int_wrapper / rand_int_low_wrapper / the operator itself: the real call
\* made for (shape, leading scalars, extras)
rand_int_wrapper(shape, scalars, extras) ==
  [op |-> "randint", scalars |-> <<scalars[1]>>, shape |-> shape, n |-> 0,
   extras |-> extras, on |-> NoView, gen0 |-> GeneratorSeen(extras.generator)]

rand_int_low_wrapper(shape, scalars, extras) ==
  [op |-> "randint", scalars |-> <<scalars[1], scalars[2]>>, shape |-> shape,
   n |-> 0, extras |-> extras, on |-> NoView, gen0 |-> GeneratorSeen(extras.generator)]

DirectFunc(op, shape, scalars, extras) ==
  [op |-> op, scalars |-> scalars, shape |-> shape, n |-> 0,
   extras |-> extras, on |-> NoView, gen0 |-> GeneratorSeen(extras.generator)]

Func(func, shape, scalars, extras) ==
  IF func = "rand_int_wrapper" THEN rand_int_wrapper(shape, scalars, extras)
  ELSE IF func = "rand_int_low_wrapper"
       THEN rand_int_low_wrapper(shape, scalars, extras)
       ELSE DirectFunc(func, shape, scalars, extras)

\* leaving the rule: the guard's destructor runs on return and on throw
Leave(res) ==
  /\ pc' = "done"
  /\ result' = res
  /\ excluded' = GuardExit(excluded, guard)
  /\ guard' = {}

\* entering a rule: the dispatcher routed the call here, the guard is built
Enter(a, m) ==
  /\ pc = "idle"
  /\ Dispatch(excluded) = "rule"
  /\ \A g \in GenNames : gens[g] <= MaxGen
  /\ args' = a
  /\ mem' = m
  /\ entry' = [gens |-> gens, excluded |-> excluded, mem |-> m]
  /\ calls' = <<>>

\* random_batching_rule, lines 24-30
random_batching_rule(func, shape, scalars, extras) ==
  /\ Enter([rule |-> "random", func |-> func, shape |-> shape,
            scalars |-> scalars, n |-> 0, extras |-> extras], NoMem)
  /\ local' = [NoLocal EXCEPT !.shapeVec = ShapeVec(layer.batchSize, shape)]
  /\ IF check_randomness(layer.randomness)
     THEN /\ pc' = "rb_func"
          /\ excluded' = GuardEnter(excluded)
          /\ guard' = GuardDelta(excluded)
          /\ result' = NoResult
     ELSE /\ pc' = "done"
          /\ excluded' = GuardExit(GuardEnter(excluded), GuardDelta(excluded))
          /\ guard' = {}
          /\ result' = Threw("RandomnessModeError")
  /\ UNCHANGED <<layer, gens, self>>

RandomBatchRuleHelper_apply ==
  \E op \in {"randn", "rand"}, shape \in Shapes, extras \in Extras :
    random_batching_rule(op, shape, <<>>, extras)

RandIntBatchRuleHelper_apply ==
  \E high \in Scalars, shape \in Shapes, extras \in Extras :
    random_batching_rule("rand_int_wrapper", shape, <<high>>, extras)

RandIntLowBatchRuleHelper_apply ==
  \E high \in Scalars, low \in Scalars, shape \in Shapes, extras \in Extras :
    random_batching_rule("rand_int_low_wrapper", shape, <<high, low>>, extras)

\* random_batching_rule, lines 31-35: the nested call and the return
random_batching_rule_Func ==
  /\ pc = "rb_func"
  /\ LET c == Func(args.func,
                   FuncShape(layer.randomness, args.shape, local.shapeVec),
                   args.scalars, args.extras)
     IN IF Dispatch(excluded) = "rule"
        THEN /\ Leave(Threw("Reentered"))
             /\ UNCHANGED <<calls, gens>>
        ELSE /\ calls' = Append(calls, c)
             /\ IF RealThrows(c)
                THEN /\ Leave(Threw("RealOpError"))
                     /\ UNCHANGED gens
                ELSE /\ gens' = Advance(gens, c.extras.generator)
                     /\ Leave(IF layer.randomness = Different
                              THEN makeBatched(RealOp(c), 0, layer.layerId)
                              ELSE Plain(RealOp(c)))
  /\ UNCHANGED <<layer, args, entry, self, mem, local>>

\* ---- in-place rule

\* the unsupported-configuration check dropped
InplaceSupported_always(randomness, self_bdim) == TRUE

\* the scratch branch never taken
UseIntermediate_never(randomness, self_bdim) == FALSE

\* the unwrapped value returned instead of the target
InplaceReturn_value(selfHandle, valueHandle) == valueHandle

\* the TORCH_CHECK of lines 49-52: TRUE when it passes
InplaceSupported(randomness, self_bdim) ==
  ~(randomness = Different /\ self_bdim = NoBdim)

\* line 53: the branch that draws once into a scratch tensor
UseIntermediate(randomness, self_bdim) ==
  randomness = Same /\ self_bdim # NoBdim

\* the handle lines 57 and 60 return
InplaceReturn(selfHandle, valueHandle) == selfHandle

\* the targets a call can be given: a plain tensor, or a tensor batched at the
\* current layer or at another one (every layer has the same batch size)
Targets ==
  {[level |-> 0, bdim |-> NoBdim, psizes |-> sh] : sh \in TargetShapes}
  \cup
  UNION {UNION {{[level |-> lv, bdim |-> d, psizes |-> InsertAt(sh, d, nb)] :
                   d \in 0..Len(sh),
                   nb \in {layer.batchSize}} :
                sh \in TargetShapes} :
         lv \in LayerIds}

BatchCount(t) == IF t.bdim = NoBdim THEN 1 ELSE t.psizes[t.bdim + 1]

InplaceOps == {"random_", "random_.from", "normal_"}
InplaceScalars(op) ==
  IF op = "random_" THEN {<<>>}
  ELSE IF op = "normal_" THEN {<<0, 1>>}
  ELSE {<<0, 1>>, <<1, 0>>}

InplaceFunc(op, view, scalars, extras) ==
  [op |-> op, scalars |-> scalars, shape |-> <<>>, n |-> 0, extras |-> extras,
   on |-> view, gen0 |-> GeneratorSeen(extras.generator)]

\* the real in-place operator fills every unit of the storage it is given
Fill(m, c) ==
  [m EXCEPT ![c.on.storage] = [i \in 1..Len(@) |-> Draw(c.gen0, i)]]

\* Tensor::copy_ of an unbatched source into a batched target: every slice of
\* the target receives the source
copy_(m) ==
  [m EXCEPT !.self = [i \in 1..Len(@) |-> m.intermediate[1]]]

\* random_inplace_batching_rule, lines 40-52
random_inplace_batching_rule(op, target, scalars, extras) ==
  /\ Enter([rule |-> "inplace", func |-> op, shape |-> <<>>,
            scalars |-> scalars, n |-> 0, extras |-> extras],
           [self |-> InitialData(BatchCount(target)), intermediate |-> <<>>])
  /\ self' = target
  /\ LET cur_level == layer.layerId
         un == unwrapTensorAtLevel(target, cur_level)
         self_value == moveBatchDimToFront(un.value, un.bdim)
         randomness == layer.randomness
     IN /\ local' = [NoLocal EXCEPT !.self_value = self_value,
                                    !.self_bdim = un.bdim]
        /\ IF ~check_randomness(randomness)
           THEN /\ pc' = "done"
                /\ excluded' = GuardExit(GuardEnter(excluded), GuardDelta(excluded))
                /\ guard' = {}
                /\ result' = Threw("RandomnessModeError")
           ELSE IF ~InplaceSupported(randomness, un.bdim)
           THEN /\ pc' = "done"
                /\ excluded' = GuardExit(GuardEnter(excluded), GuardDelta(excluded))
                /\ guard' = {}
                /\ result' = Threw("UnsupportedInplaceRandomnessError")
           ELSE /\ pc' = "ip_branch"
                /\ excluded' = GuardEnter(excluded)
                /\ guard' = GuardDelta(excluded)
                /\ result' = NoResult
  /\ UNCHANGED <<layer, gens>>

RandomInplaceBatchRuleHelper_apply ==
  \E op \in InplaceOps, target \in Targets, extras \in Extras :
    \E scalars \in InplaceScalars(op) :
      random_inplace_batching_rule(op, target, scalars, extras)

\* lines 54-55: allocate the scratch tensor and draw into it
random_inplace_intermediate ==
  /\ pc = "ip_branch"
  /\ UseIntermediate(layer.randomness, local.self_bdim)
  /\ LET intermediate == empty(LogicalSizes(self))
         m0 == [mem EXCEPT !.intermediate = <<Draw(-2, 1)>>]
         c == InplaceFunc(args.func, intermediate, args.scalars, args.extras)
     IN /\ local' = [local EXCEPT !.intermediate = intermediate]
        /\ IF Dispatch(excluded) = "rule"
           THEN /\ Leave(Threw("Reentered"))
                /\ mem' = m0
                /\ UNCHANGED <<calls, gens>>
           ELSE /\ calls' = Append(calls, c)
                /\ IF RealThrows(c)
                   THEN /\ Leave(Threw("RealOpError"))
                        /\ mem' = m0
                        /\ UNCHANGED gens
                   ELSE /\ gens' = Advance(gens, c.extras.generator)
                        /\ mem' = Fill(m0, c)
                        /\ pc' = "ip_copy"
                        /\ UNCHANGED <<excluded, guard, result>>
  /\ UNCHANGED <<layer, args, entry, self>>

\* lines 56-57: copy the scratch tensor into the target and return the target
random_inplace_copy ==
  /\ pc = "ip_copy"
  /\ mem' = copy_(mem)
  /\ Leave([NoResult EXCEPT !.status = "ok",
                            !.handle = InplaceReturn("self", "intermediate")])
  /\ UNCHANGED <<layer, gens, args, entry, self, local, calls>>

\* lines 59-60: draw into the unwrapped value and return the target
random_inplace_direct ==
  /\ pc = "ip_branch"
  /\ ~UseIntermediate(layer.randomness, local.self_bdim)
  /\ LET c == InplaceFunc(args.func, local.self_value, args.scalars, args.extras)
     IN IF Dispatch(excluded) = "rule"
        THEN /\ Leave(Threw("Reentered"))
             /\ UNCHANGED <<calls, gens, mem>>
        ELSE /\ calls' = Append(calls, c)
             /\ IF RealThrows(c)
                THEN /\ Leave(Threw("RealOpError"))
                     /\ UNCHANGED <<gens, mem>>
                ELSE /\ gens' = Advance(gens, c.extras.generator)
                     /\ mem' = Fill(mem, c)
                     /\ Leave([NoResult EXCEPT !.status = "ok",
                               !.handle = InplaceReturn("self", "self_value")])
  /\ UNCHANGED <<layer, args, entry, self, local>>

\* ---- randperm rule

\* the loop stopping one iteration early
LoopCond_short(idx, batch_size) == idx < batch_size - 1

\* line 74: the loop condition
LoopCond(idx, batch_size) == idx < batch_size

RandpermFunc(n, extras) ==
  [op |-> "randperm", scalars |-> <<>>, shape |-> <<>>, n |-> n,
   extras |-> extras, on |-> NoView, gen0 |-> GeneratorSeen(extras.generator)]

\* randperm_batching_rule, lines 66-73
randperm_batching_rule(n, extras) ==
  /\ Enter([rule |-> "randperm", func |-> "randperm", shape |-> <<>>,
            scalars |-> <<>>, n |-> n, extras |-> extras], NoMem)
  /\ IF ~check_randomness(layer.randomness)
     THEN /\ pc' = "done"
          /\ excluded' = GuardExit(GuardEnter(excluded), GuardDelta(excluded))
          /\ guard' = {}
          /\ result' = Threw("RandomnessModeError")
          /\ local' = NoLocal
     ELSE /\ excluded' = GuardEnter(excluded)
          /\ guard' = GuardDelta(excluded)
          /\ result' = NoResult
          /\ IF layer.randomness = Different
             THEN /\ pc' = "rp_loop"
                  /\ local' = [NoLocal EXCEPT !.stackedList =
                                [i \in 1..layer.batchSize |-> NoTensor]]
             ELSE /\ pc' = "rp_same"
                  /\ local' = NoLocal
  /\ UNCHANGED <<layer, gens, self>>

RandpermBatchRuleHelper_apply ==
  \E n \in -1..MaxN, extras \in Extras : randperm_batching_rule(n, extras)

\* lines 74-77: one iteration of the loop
randperm_loop_iter ==
  /\ pc = "rp_loop"
  /\ LoopCond(local.idx, layer.batchSize)
  /\ LET c == RandpermFunc(args.n, args.extras)
     IN IF Dispatch(excluded) = "rule"
        THEN /\ Leave(Threw("Reentered"))
             /\ UNCHANGED <<calls, gens, local>>
        ELSE /\ calls' = Append(calls, c)
             /\ IF RealThrows(c)
                THEN /\ Leave(Threw("RealOpError"))
                     /\ UNCHANGED <<gens, local>>
                ELSE /\ gens' = Advance(gens, c.extras.generator)
                     /\ local' = [local EXCEPT
                                    !.stackedList[local.idx + 1] = RealOp(c),
                                    !.idx = @ + 1]
                     /\ UNCHANGED <<pc, excluded, guard, result>>
  /\ UNCHANGED <<layer, args, entry, self, mem>>

\* line 78: stack the rows and tag the result
randperm_stack ==
  /\ pc = "rp_loop"
  /\ ~LoopCond(local.idx, layer.batchSize)
  /\ Leave(makeBatched(stack(local.stackedList), 0, layer.layerId))
  /\ UNCHANGED <<layer, gens, args, entry, self, mem, local, calls>>

\* lines 80-81: one call, returned as it is
randperm_same ==
  /\ pc = "rp_same"
  /\ LET c == RandpermFunc(args.n, args.extras)
     IN IF Dispatch(excluded) = "rule"
        THEN /\ Leave(Threw("Reentered"))
             /\ UNCHANGED <<calls, gens>>
        ELSE /\ calls' = Append(calls, c)
             /\ IF RealThrows(c)
                THEN /\ Leave(Threw("RealOpError"))
                     /\ UNCHANGED gens
                ELSE /\ gens' = Advance(gens, c.extras.generator)
                     /\ Leave(Plain(RealOp(c)))
  /\ UNCHANGED <<layer, args, entry, self, mem, local>>

\* the caller takes the result; the next call starts from the generators as
\* this one left them
Return ==
  /\ pc = "done"
  /\ pc' = "idle"
  /\ args' = NoArgs
  /\ entry' = NoEntry
  /\ self' = NoSelf
  /\ mem' = NoMem
  /\ local' = NoLocal
  /\ calls' = <<>>
  /\ result' = NoResult
  /\ UNCHANGED <<layer, excluded, gens, guard>>

Init ==
  /\ layer \in [batchSize : 1..MaxBatch, layerId : LayerIds,
                randomness : RandomnessType]
  /\ excluded = {}
  /\ gens = [g \in GenNames |-> 0]
  /\ pc = "idle"
  /\ args = NoArgs
  /\ entry = NoEntry
  /\ guard = {}
  /\ self = NoSelf
  /\ mem = NoMem
  /\ local = NoLocal
  /\ calls = <<>>
  /\ result = NoResult

Next ==
  \/ RandomBatchRuleHelper_apply
  \/ RandIntBatchRuleHelper_apply
  \/ RandIntLowBatchRuleHelper_apply
  \/ random_batching_rule_Func
  \/ RandomInplaceBatchRuleHelper_apply
  \/ random_inplace_intermediate
  \/ random_inplace_copy
  \/ random_inplace_direct
  \/ RandpermBatchRuleHelper_apply
  \/ randperm_loop_iter
  \/ randperm_stack
  \/ randperm_same
  \/ Return

Spec == Init /\ [][Next]_vars

\* ------------------------------------------------------------ properties

InRule(rule) == pc # "idle" /\ args.rule = rule
Finished(rule) == pc = "done" /\ args.rule = rule
Mode(m) == layer.randomness = m
B == layer.batchSize
\* v is b followed by the elements of s, in order
Prepended(v, b, s) ==
  /\ Len(v) = Len(s) + 1
  /\ v[1] = b
  /\ \A i \in 1..Len(s) : v[i + 1] = s[i]
BatchedAtCurrentLayer == self.bdim # NoBdim /\ self.level = layer.layerId
Untouched == gens = entry.gens /\ mem = entry.mem
IsPermutation(p, n) ==
  Len(p) = n /\ \A k \in 0..(n - 1) : \E i \in 1..n : p[i] = k

\* C1: under mode Error every rule (shape, in-place, randperm) ends with the
\* randomness-mode error, the real operator has not been invoked, and the
\* generators and the in-place target are as they were on entry; for the
\* in-place rule this is so whether or not the target is batched at the layer.
C1_ErrorModeAborts ==
  (pc # "idle" /\ Mode(Error)) =>
    /\ pc = "done"
    /\ result.status = "RandomnessModeError"
    /\ calls = <<>>
    /\ Untouched

C1_Witness ==
  /\ Finished("inplace") /\ Mode(Error)
  /\ ~BatchedAtCurrentLayer
  /\ result.status = "RandomnessModeError"

\* C2: under mode Different a finished shape rule has invoked the real operator
\* exactly once, with the shape [B] ++ S and the extra arguments it was given,
\* and what it returns is that result tagged as batched at dimension 0 with
\* the layer's identifier (if the real operator threw, its error is returned).
C2_DifferentPrependsBatch ==
  (Finished("random") /\ Mode(Different)) =>
    /\ Len(calls) = 1
    /\ Prepended(calls[1].shape, B, args.shape)
    /\ calls[1].extras = args.extras
    /\ result.status \in {"ok", "RealOpError"}
    /\ (result.status = "RealOpError") = RealThrows(calls[1])
    /\ result.status = "ok" =>
         /\ result.value = RealOp(calls[1])
         /\ Prepended(result.value.sizes, B, args.shape)
         /\ result.bdim = 0
         /\ result.level = layer.layerId

C2_Witness ==
  /\ Finished("random") /\ Mode(Different)
  /\ result.status = "ok"
  /\ args.shape = <<2, 3>>
  /\ B = 2
  /\ layer.layerId = 2

\* C3: under mode Same a finished shape rule has invoked the real operator
\* exactly once with the shape S and the extra arguments it was given, and the
\* value returned has shape S and no batch tag, whatever the batch size.
C3_SameKeepsShape ==
  (Finished("random") /\ Mode(Same)) =>
    /\ Len(calls) = 1
    /\ calls[1].shape = args.shape
    /\ calls[1].extras = args.extras
    /\ result.status \in {"ok", "RealOpError"}
    /\ (result.status = "RealOpError") = RealThrows(calls[1])
    /\ result.status = "ok" =>
         /\ result.value = RealOp(calls[1])
         /\ result.value.sizes = args.shape
         /\ result.bdim = NoBdim
         /\ result.level = 0

C3_Witness ==
  /\ Finished("random") /\ Mode(Same)
  /\ result.status = "ok"
  /\ args.shape = <<3, 2>>
  /\ B = 2

\* C4: in-place rule, mode Same, target batched at the current layer: the real
\* operator runs exactly once, on a scratch tensor with a storage of its own
\* and the target's logical shape; the target is not written before the copy;
\* after the copy every one of the B slices of the target holds that one draw.
C4_SameBatchedBroadcastsOneDraw ==
  (InRule("inplace") /\ Mode(Same) /\ BatchedAtCurrentLayer) =>
    /\ pc = "ip_branch" => calls = <<>> /\ mem.self = entry.mem.self
    /\ pc \in {"ip_copy", "done"} =>
         /\ Len(calls) = 1
         /\ calls[1].on.storage = "intermediate"
         /\ calls[1].on.sizes = RemoveAt(self.psizes, self.bdim)
    /\ pc = "ip_copy" =>
         /\ mem.self = entry.mem.self
         /\ mem.intermediate = <<Draw(calls[1].gen0, 1)>>
    /\ pc = "done" =>
         /\ result.status \in {"ok", "RealOpError"}
         /\ result.status = "RealOpError" => mem.self = entry.mem.self
         /\ result.status = "ok" =>
              /\ Len(mem.self) = B
              /\ \A i \in 1..B : mem.self[i] = Draw(calls[1].gen0, 1)

C4_Witness ==
  /\ Finished("inplace") /\ Mode(Same) /\ BatchedAtCurrentLayer
  /\ result.status = "ok"
  /\ B = 2
  /\ self.bdim = 1
  /\ mem.self[1] = mem.self[2]
  /\ entry.mem.self[1] # entry.mem.self[2]

\* C5: in-place rule, mode Different, target without a batch dimension at the
\* current layer: the call ends with the unsupported-inplace error, no real
\* operator has been invoked, nothing was drawn and the target is unchanged.
C5_DifferentUnbatchedAborts ==
  (InRule("inplace") /\ Mode(Different) /\ ~BatchedAtCurrentLayer) =>
    /\ pc = "done"
    /\ result.status = "UnsupportedInplaceRandomnessError"
    /\ calls = <<>>
    /\ Untouched

C5_Witness ==
  /\ Finished("inplace") /\ Mode(Different)
  /\ self.level = 0
  /\ result.status = "UnsupportedInplaceRandomnessError"

C7_RandpermSequentialGenerator ==
  (InRule("randperm") /\ Mode(Different)) =>
    LET g  == args.extras.generator
        g0 == entry.gens[g]
    IN /\ \A i \in 1..Len(calls) : calls[i].gen0 = g0 + (i - 1)
       /\ \A i, j \in 1..Len(calls) : i # j => calls[i].gen0 # calls[j].gen0
       /\ pc = "rp_loop" =>
            /\ Len(calls) = local.idx
            /\ gens[g] = g0 + local.idx
            /\ \A i \in 1..local.idx :
                 local.stackedList[i] = RealOp(calls[i])
       /\ (pc = "done" /\ result.status = "ok") =>
            /\ gens[g] = g0 + B
            /\ \A i \in 1..B :
                 result.value.rows[i] = RealPerm(args.n, g0 + (i - 1))

C7_Witness ==
  /\ Finished("randperm") /\ Mode(Different)
  /\ result.status = "ok"
  /\ B = 2
  /\ args.n = 3
  /\ entry.gens[args.extras.generator] = 1
  /\ result.value.rows[1] # result.value.rows[2]

\* C8: in every rule the vmap-mode key is excluded whenever a nested call of
\* the real operator is pending, so no nested call re-enters the rule; and
\* when the rule has been left, by return or by any of the errors, the
\* excluded keys are what they were before the call.
C8_GuardExcludesAndRestores ==
  /\ pc \in {"rb_func", "ip_branch", "ip_copy", "rp_loop", "rp_same"} =>
       kVmapModeKey \in excluded
  /\ result.status # "Reentered"
  /\ pc = "done" => excluded = entry.excluded
  /\ pc \in {"idle", "done"} => guard = {}

C8_Witness ==
  /\ pc = "done"
  /\ result.status = "RealOpError"
  /\ args.rule = "randperm"
  /\ excluded = entry.excluded

\* C9: in-place rule, mode Same with a target not batched at the current layer
\* or mode Different with a target batched at it: the real operator is invoked
\* exactly once, on the target's own storage seen with the batch dimension in
\* front, no scratch tensor is made and nothing is copied; and whenever the
\* in-place rule returns normally it returns the target handle.
C9_InplaceDirectAndReturnsSelf ==
  /\ (Finished("inplace") /\
      \/ Mode(Same) /\ ~BatchedAtCurrentLayer
      \/ Mode(Different) /\ BatchedAtCurrentLayer) =>
       /\ Len(calls) = 1
       /\ calls[1].on.storage = "self"
       /\ calls[1].on.sizes =
            IF BatchedAtCurrentLayer
            THEN <<B>> \o RemoveAt(self.psizes, self.bdim)
            ELSE LogicalSizes(self)
       /\ local.intermediate = NoView
       /\ mem.intermediate = <<>>
       /\ result.status \in {"ok", "RealOpError"}
       /\ result.status = "ok" =>
            \A i \in 1..Len(mem.self) : mem.self[i] = Draw(calls[1].gen0, i)
  /\ (Finished("inplace") /\ result.status = "ok") => result.handle = "self"

C9_Witness ==
  /\ Finished("inplace") /\ Mode(Different) /\ BatchedAtCurrentLayer
  /\ result.status = "ok"
  /\ self.bdim = 1
  /\ B = 2
  /\ mem.self[1] # mem.self[2]

\* C10: the randint adapters: the outcome is the shape rule's (the mode error
\* under Error, one call otherwise), and the real randint receives the scalar
\* bounds with the values and in the positions the caller gave them, then the
\* shape as the shape rule rewrites it, then the unchanged extras.
C10_RandintAdaptersForward ==
  (Finished("random") /\ args.func \in {"rand_int_wrapper", "rand_int_low_wrapper"}) =>
    IF Mode(Error)
    THEN result.status = "RandomnessModeError" /\ calls = <<>>
    ELSE /\ Len(calls) = 1
         /\ calls[1].op = "randint"
         /\ calls[1].scalars = args.scalars
         /\ Len(args.scalars) = IF args.func = "rand_int_wrapper" THEN 1 ELSE 2
         /\ IF Mode(Different)
            THEN Prepended(calls[1].shape, B, args.shape)
            ELSE calls[1].shape = args.shape
         /\ calls[1].extras = args.extras
         /\ (result.status = "ok") = ~RealThrows(calls[1])
         /\ result.status = "ok" =>
              (result.bdim = IF Mode(Different) THEN 0 ELSE NoBdim)

C10_Witness ==
  /\ Finished("random") /\ args.func = "rand_int_low_wrapper"
  /\ Mode(Different)
  /\ args.scalars = <<0, 1>>
  /\ args.shape = <<3>>
  /\ result.status = "ok"

====
